---- MODULE Spec2Model ----
(***************************************************************************)
(* State-machine model of src/bot.py: the registration / approval /        *)
(* question / announcement bot and its channel gate.                       *)
(*                                                                         *)
(* The python-telegram-bot Application is built without concurrent         *)
(* updates (bot.py:1154), so every update is handled to completion before  *)
(* the next one is fetched: one handler run is one step.  All handlers     *)
(* live in handler group 0 (bot.py:1224-1249); for every update the first  *)
(* handler of the group whose filter matches runs and no other.            *)
(*                                                                         *)
(* Text is a sequence of tokens.  "_" is a token of its own and no other  *)
(* token contains it; leading and trailing whitespace is the token " ".    *)
(* str.split('_') and str.strip() are computed on the sequence.            *)
(***************************************************************************)
EXTENDS Integers, Sequences, FiniteSets, TLC

\* ------------------------------------------------------------------ bounds
\* Users are 1..NumUsers; the first two are the configured admins.
NumUsers == 3
\* Largest message sequence number the transport hands out.
MaxMsgId == 3

Users == 1..NumUsers

\* ----------------------------------------------------------- configuration
ADMIN_IDS == <<1, 2>>
LOG_CHANNEL_ID == 100
MAIN_CHANNEL_ID == 200
OtherChatId == MAIN_CHANNEL_ID + 1

IsAdmin_Everyone(id) == TRUE
\* `id in ADMIN_IDS`
IsAdmin(id) == \E i \in DOMAIN ADMIN_IDS : ADMIN_IDS[i] = id

\* ------------------------------------------------- conversation states
GET_FULL_NAME == 0
GET_SEMESTER == 1
GET_STREAM == 2
GET_GENDER == 3
GET_PAYMENT_METHOD == 4
AWAITING_SCREENSHOT == 5
ANNOUNCEMENT_SEMESTER == 6
ANNOUNCEMENT_CONTENT == 7
ASK_COMMENT == 8
REPLY_TO_COMMENT == 9
\* ConversationHandler.END: the conversation key is dropped, no state is held.
END == -1

\* ------------------------------------------------------------ Python dicts
\* A dict is a function whose DOMAIN is its key set.
EmptyDict == <<>>
Get(d, k, default) == IF k \in DOMAIN d THEN d[k] ELSE default
Put(d, k, v) == [x \in (DOMAIN d) \cup {k} |-> IF x = k THEN v ELSE d[x]]
Pop(d, k) == [x \in (DOMAIN d) \ {k} |-> d[x]]

\* Python's None, as a text value no input can produce.
None == <<"<None>">>

\* ------------------------------------------------------------------- text
RECURSIVE LStrip(_)
LStrip(s) == IF s # <<>> /\ Head(s) = " " THEN LStrip(Tail(s)) ELSE s

RECURSIVE RStrip(_)
RStrip(s) ==
    IF s # <<>> /\ s[Len(s)] = " " THEN RStrip(SubSeq(s, 1, Len(s) - 1)) ELSE s

Strip_Identity(s) == s
\* str.strip()
Strip(s) == RStrip(LStrip(s))

\* str.split(sep): the list of the pieces between the separators.
RECURSIVE SplitFrom(_, _, _, _)
SplitFrom(s, sep, done, cur) ==
    IF s = <<>> THEN Append(done, cur)
    ELSE IF Head(s) = sep THEN SplitFrom(Tail(s), sep, Append(done, cur), <<>>)
    ELSE SplitFrom(Tail(s), sep, done, Append(cur, Head(s)))

Split(s, sep) == SplitFrom(s, sep, <<>>, <<>>)

\* `query.data.split('_')[1]` (Python indexes from 0).
SplitArg(data) == Split(data, "_")[2]

DigitTokens == <<"0", "1", "2", "3", "4", "5", "6", "7", "8", "9">>

\* str(n) for n >= 0
RECURSIVE Str(_)
Str(n) ==
    IF n < 10 THEN <<DigitTokens[n + 1]>>
    ELSE Append(Str(n \div 10), DigitTokens[(n % 10) + 1])

DigitValue(t) == (CHOOSE i \in DOMAIN DigitTokens : DigitTokens[i] = t) - 1

\* int(s) for a string of digits
RECURSIVE ParseInt(_)
ParseInt(s) ==
    IF Len(s) = 1 THEN DigitValue(s[1])
    ELSE 10 * ParseInt(SubSeq(s, 1, Len(s) - 1)) + DigitValue(s[Len(s)])

IsDigits(s) ==
    /\ s # <<>>
    /\ \A i \in DOMAIN s : \E j \in DOMAIN DigitTokens : DigitTokens[j] = s[i]

\* re.match('^<prefix>_', data)
HasPrefix(data, prefix) == Len(data) >= 2 /\ data[1] = prefix /\ data[2] = "_"

\* callback_data strings
CallbackData(prefix, arg) == <<prefix, "_">> \o arg
GetStartedData == <<"get", "_", "started">>
CancelRegistrationData == <<"cancel", "_", "registration">>
CancelAnnouncementData == <<"cancel", "_", "announcement">>
CancelQuestionData == <<"cancel", "_", "question">>
CancelReplyData == <<"cancel", "_", "reply">>

\* menu button texts
AskQuestionText == <<"Ask", " ", "Question">>
SendAnnouncementText == <<"Send", " ", "Announcement">>
ClearPendingText == <<"Clear", " ", "Pending">>

FirstSemester == <<"First Semester">>
SecondSemester == <<"Second Semester">>

\* ------------------------------------------------------------------ state
VARIABLES
    user_statuses,    \* bot_data['user_statuses']: user id -> status
    user_data,        \* bot_data['user_data']: user id -> profile
    pending_reviews,  \* bot_data['pending_reviews']: user id -> submission
    pending_comments, \* bot_data['pending_comments']: comment id -> question
    ctx_user_data,    \* context.user_data of every user (the session dict)
    conversations,    \* state of every ConversationHandler, per user
    keyboards,        \* messages in private chats that carry inline buttons
    msg_seq,          \* last message sequence number the transport issued
    members,          \* users that are in the gated channel
    banned,           \* users banned from the gated channel
    last              \* the update handled last and the outbound calls it made

vars == <<user_statuses, user_data, pending_reviews, pending_comments,
          ctx_user_data, conversations, keyboards, msg_seq, members, banned,
          last>>

bot_data == <<user_statuses, user_data, pending_reviews, pending_comments>>
gate == <<members, banned>>

Reg(u) == conversations["registration"][u]
Ask(u) == conversations["ask_comment"][u]
Reply(u) == conversations["reply_comment"][u]
Ann(u) == conversations["announcement"][u]

\* ConversationHandler._update_state
SetConv(name, u, state) == [conversations EXCEPT ![name][u] = state]

\* `context.bot_data.setdefault('user_statuses', {}).get(user.id, 'none')`
StatusOf(u) == Get(user_statuses, u, "none")

\* One outbound call of the bot API, with whether the transport delivered it.
Call(name, to, ok, arg) == [call |-> name, to |-> to, ok |-> ok, arg |-> arg]

\* What the run of handler h did: the sender, the user it was about (0: none),
\* the branch it ended in and the outbound calls it made to other parties.
Handled(h, u, on, res, out) ==
    [h |-> h, by |-> u, on |-> on, res |-> res, out |-> out, info |-> <<>>]

\* ------------------------------------------------------- inline keyboards
Keyboard(chat, id, kb, ref, shot) ==
    [chat |-> chat, id |-> id, kb |-> kb, ref |-> ref, shot |-> shot]

\* The callback_data of the buttons a message carries.
Buttons(m) ==
    CASE m.kb = "get_started" -> {GetStartedData}
      [] m.kb = "semester" ->
            {CallbackData("semester", FirstSemester),
             CallbackData("semester", SecondSemester),
             CancelRegistrationData}
      [] m.kb = "stream_first" ->
            {CallbackData("stream", <<"Social Science">>),
             CallbackData("stream", <<"Natural Science">>),
             CancelRegistrationData}
      [] m.kb = "stream_second" ->
            {CallbackData("stream", <<"Pre-Engineering">>),
             CallbackData("stream", <<"Other Natural Science">>),
             CallbackData("stream", <<"Social Science">>),
             CallbackData("stream", <<"Health">>),
             CancelRegistrationData}
      [] m.kb = "gender" ->
            {CallbackData("gender", <<"Male">>),
             CallbackData("gender", <<"Female">>),
             CancelRegistrationData}
      [] m.kb = "method" ->
            {CallbackData("method", <<"Telebirr">>),
             CallbackData("method", <<"CBE">>),
             CallbackData("method", <<"mPesa">>),
             CancelRegistrationData}
      [] m.kb = "cancel_registration" -> {CancelRegistrationData}
      [] m.kb = "approval" ->
            {CallbackData("approve", m.ref), CallbackData("reject", m.ref)}
      [] m.kb = "cancel_question" -> {CancelQuestionData}
      [] m.kb = "reply" -> {CallbackData("reply", m.ref)}
      [] m.kb = "cancel_reply" -> {CancelReplyData}
      [] m.kb = "announce" ->
            {CallbackData("announce", FirstSemester),
             CallbackData("announce", SecondSemester),
             CallbackData("announce", <<"all">>),
             CancelAnnouncementData}
      [] m.kb = "cancel_announcement" -> {CancelAnnouncementData}

\* edit_message_text on message m: the text and the inline keyboard are
\* replaced; without reply_markup the message keeps no buttons.
EditKeyboard(m, kb) == (keyboards \ {m}) \cup {[m EXCEPT !.kb = kb]}
DropKeyboard(m) == keyboards \ {m}

\* A button press: user u presses the button carrying `d` on message m.
Pressed(u, m, d) == m \in keyboards /\ m.chat = u /\ d \in Buttons(m)

\* ----------------------------------------------------------- dispatching
\* Which handler of group 0 takes a callback query (bot.py:1224-1236).
RouteCallback(u, d) ==
    IF HasPrefix(d, "approve") \/ HasPrefix(d, "reject")
        THEN "user_approval_handler"
    ELSE IF d = CancelRegistrationData THEN "cancel_registration_callback"
    ELSE IF d = CancelAnnouncementData THEN "cancel_announcement_callback"
    ELSE IF d = CancelQuestionData THEN "cancel_question_callback"
    ELSE IF d = CancelReplyData THEN "cancel_reply_callback"
    ELSE IF Reg(u) = END /\ d = GetStartedData
        THEN "handle_get_started_callback"
    ELSE IF Reg(u) = GET_SEMESTER /\ HasPrefix(d, "semester") THEN "get_semester"
    ELSE IF Reg(u) = GET_STREAM /\ HasPrefix(d, "stream") THEN "get_stream"
    ELSE IF Reg(u) = GET_GENDER /\ HasPrefix(d, "gender") THEN "get_gender"
    ELSE IF Reg(u) = GET_PAYMENT_METHOD /\ HasPrefix(d, "method")
        THEN "get_payment_method"
    ELSE IF Reply(u) = END /\ HasPrefix(d, "reply") THEN "reply_to_comment_start"
    ELSE IF Ann(u) = ANNOUNCEMENT_SEMESTER /\ HasPrefix(d, "announce")
        THEN "announcement_semester"
    ELSE "unhandled"

\* Which handler takes a text message that is not a command
\* (bot.py:1233-1239).
RouteText(u, t) ==
    IF Reg(u) = GET_FULL_NAME THEN "get_full_name"
    ELSE IF Ask(u) = END /\ t = AskQuestionText THEN "ask_question_start"
    ELSE IF Ask(u) = ASK_COMMENT THEN "receive_comment"
    ELSE IF Reply(u) = REPLY_TO_COMMENT THEN "send_reply_to_user"
    ELSE IF Ann(u) = END /\ t = SendAnnouncementText THEN "announcement_start"
    ELSE IF Ann(u) = ANNOUNCEMENT_CONTENT THEN "announcement_content"
    ELSE "handle_menu_buttons"

\* Which handler takes a photo message.
RoutePhoto(u) ==
    IF Reg(u) = AWAITING_SCREENSHOT THEN "receive_screenshot"
    ELSE IF Ann(u) = ANNOUNCEMENT_CONTENT THEN "announcement_content"
    ELSE "unhandled"

\* Which handler takes a message that is neither text nor photo (a document).
RouteOther(u) ==
    IF Ann(u) = ANNOUNCEMENT_CONTENT THEN "announcement_content" ELSE "unhandled"

\* Which conversation, if any, takes the /cancel command as its fallback;
\* in ANNOUNCEMENT_CONTENT the state's own filters.ALL handler comes first.
RouteCancel(u) ==
    IF Reg(u) # END THEN "registration"
    ELSE IF Ask(u) # END THEN "ask_comment"
    ELSE IF Reply(u) # END THEN "reply_comment"
    ELSE IF Ann(u) = ANNOUNCEMENT_CONTENT THEN "announcement_content"
    ELSE IF Ann(u) = ANNOUNCEMENT_SEMESTER THEN "announcement"
    ELSE "standalone"

\* Which handler takes the /start command.
RouteStart(u) ==
    IF Reg(u) = END THEN "start"
    ELSE IF Ann(u) = ANNOUNCEMENT_CONTENT THEN "announcement_content"
    ELSE "start"

\* ------------------------------------------------------------------- Init
ConvNames == {"registration", "ask_comment", "reply_comment", "announcement"}

Init ==
    /\ user_statuses = EmptyDict
    /\ user_data = EmptyDict
    /\ pending_reviews = EmptyDict
    /\ pending_comments = EmptyDict
    /\ ctx_user_data = [u \in Users |-> EmptyDict]
    /\ conversations = [c \in ConvNames |-> [u \in Users |-> END]]
    /\ keyboards = {}
    /\ msg_seq = 0
    /\ members = {}
    /\ banned = {}
    /\ last = Handled("init", 0, 0, "ok", <<>>)

\* ---------------------------------------------------------- /start, begin
\* start (bot.py:71-151).  reply_fails: the one reply_text call raises.
start(u, reply_fails) ==
    /\ RouteStart(u) = "start"
    /\ keyboards' =
          IF ~IsAdmin(u) /\ StatusOf(u) \notin {"approved", "pending"}
             /\ ~reply_fails
          THEN keyboards \cup {Keyboard(u, 0, "get_started", <<>>, 0)}
          ELSE keyboards
    /\ last' = Handled("start", u, 0, IF reply_fails THEN "raised" ELSE "ok", <<>>)
    /\ UNCHANGED <<bot_data, ctx_user_data, conversations, msg_seq, gate>>

MayBegin_Always(status) == TRUE
\* The two short-circuits of handle_get_started_callback (bot.py:162, 171).
MayBegin(status) == status # "approved" /\ status # "pending"

\* handle_get_started_callback (bot.py:153-182).
\* fail: "none", or the awaited call that raises ("answer", "edit").
handle_get_started_callback(u, m, fail) ==
    /\ Pressed(u, m, GetStartedData)
    /\ RouteCallback(u, GetStartedData) = "handle_get_started_callback"
    /\ UNCHANGED <<bot_data, msg_seq, gate>>
    /\ IF fail # "none"
       THEN /\ UNCHANGED <<ctx_user_data, conversations, keyboards>>
            /\ last' = Handled("handle_get_started_callback", u, u, "raised", <<>>)
       ELSE /\ keyboards' = DropKeyboard(m)
            /\ IF MayBegin(StatusOf(u))
               THEN /\ ctx_user_data' =
                          [ctx_user_data EXCEPT
                              ![u] = Put(@, "registration_in_progress", <<"True">>)]
                    /\ conversations' = SetConv("registration", u, GET_FULL_NAME)
                    /\ last' = Handled("handle_get_started_callback", u, u,
                                       "begin", <<>>)
               ELSE /\ UNCHANGED <<ctx_user_data, conversations>>
                    /\ last' = Handled("handle_get_started_callback", u, u,
                                       "short_circuit", <<>>)

\* ----------------------------------------------------- registration steps
\* get_full_name (bot.py:375-396).  The prompt it sends carries the semester
\* buttons and gets the next message sequence number.  last.info keeps the
\* text that was sent.
get_full_name(u, t, reply_fails) ==
    /\ RouteText(u, t) = "get_full_name"
    /\ UNCHANGED <<bot_data, gate>>
    /\ LET user_full_name == Strip(t)
           done(res) == [Handled("get_full_name", u, u, res, <<>>) EXCEPT !.info = t]
       IN
       IF user_full_name = <<>>
       THEN /\ UNCHANGED <<ctx_user_data, conversations, keyboards, msg_seq>>
            /\ last' = done(IF reply_fails THEN "raised" ELSE "reprompt")
       ELSE /\ ctx_user_data' =
                  [ctx_user_data EXCEPT ![u] = Put(@, "full_name", user_full_name)]
            /\ IF reply_fails
               THEN /\ UNCHANGED <<conversations, keyboards, msg_seq>>
                    /\ last' = done("raised")
               ELSE /\ msg_seq < MaxMsgId
                    /\ msg_seq' = msg_seq + 1
                    /\ keyboards' = keyboards \cup
                          {Keyboard(u, msg_seq + 1, "semester", <<>>, 0)}
                    /\ conversations' = SetConv("registration", u, GET_SEMESTER)
                    /\ last' = done("ok")

\* The stream keyboard get_semester builds (bot.py:406-421).
StreamKeyboard(semester) ==
    IF semester = FirstSemester THEN "stream_first"
    ELSE IF semester = SecondSemester THEN "stream_second"
    ELSE "cancel_registration"

\* The shape shared by get_semester, get_stream and get_gender: answer the
\* query, store split('_')[1] under `key`, edit the pressed message to carry
\* the next keyboard, return the next state.
ButtonStep(h, u, m, d, fail, key, kb, next) ==
    /\ Pressed(u, m, d)
    /\ RouteCallback(u, d) = h
    /\ UNCHANGED <<bot_data, msg_seq, gate>>
    /\ IF fail = "answer"
       THEN /\ UNCHANGED <<ctx_user_data, conversations, keyboards>>
            /\ last' = Handled(h, u, u, "raised", <<>>)
       ELSE /\ ctx_user_data' =
                  [ctx_user_data EXCEPT ![u] = Put(@, key, SplitArg(d))]
            /\ IF fail = "edit"
               THEN /\ UNCHANGED <<conversations, keyboards>>
                    /\ last' = Handled(h, u, u, "raised", <<>>)
               ELSE /\ keyboards' = EditKeyboard(m, kb)
                    /\ conversations' = SetConv("registration", u, next)
                    /\ last' = Handled(h, u, u, "ok", <<>>)

\* get_semester (bot.py:398-430)
get_semester(u, m, d, fail) ==
    ButtonStep("get_semester", u, m, d, fail, "semester",
               StreamKeyboard(SplitArg(d)), GET_STREAM)

\* get_stream (bot.py:432-452)
get_stream(u, m, d, fail) ==
    ButtonStep("get_stream", u, m, d, fail, "stream", "gender", GET_GENDER)

\* get_gender (bot.py:454-475)
get_gender(u, m, d, fail) ==
    ButtonStep("get_gender", u, m, d, fail, "gender", "method", GET_PAYMENT_METHOD)

PaymentId_NoUser(user_id, message_id) == <<"ABJ">> \o Str(message_id)
\* f"ABJ{user_id}{query.message.message_id}" (bot.py:500)
PaymentId(user_id, message_id) == <<"ABJ">> \o Str(user_id) \o Str(message_id)

\* The keys the summary text indexes directly (bot.py:507-510): a missing one
\* raises KeyError.
SummaryKeys == {"full_name", "semester", "stream", "gender"}

\* get_payment_method (bot.py:477-532)
get_payment_method(u, m, d, fail) ==
    /\ Pressed(u, m, d)
    /\ RouteCallback(u, d) = "get_payment_method"
    /\ UNCHANGED <<bot_data, msg_seq, gate>>
    /\ IF fail = "answer"
       THEN /\ UNCHANGED <<ctx_user_data, conversations, keyboards>>
            /\ last' = Handled("get_payment_method", u, u, "raised", <<>>)
       ELSE /\ ctx_user_data' =
                  [ctx_user_data EXCEPT
                      ![u] = Put(Put(@, "payment_method", SplitArg(d)),
                                 "payment_id", PaymentId(u, m.id))]
            /\ IF fail = "edit" \/ ~(SummaryKeys \subseteq DOMAIN ctx_user_data[u])
               THEN /\ UNCHANGED <<conversations, keyboards>>
                    /\ last' = Handled("get_payment_method", u, u, "raised", <<>>)
               ELSE /\ keyboards' = EditKeyboard(m, "cancel_registration")
                    /\ conversations' =
                          SetConv("registration", u, AWAITING_SCREENSHOT)
                    /\ last' = Handled("get_payment_method", u, u, "ok", <<>>)

\* ------------------------------------------------------------- screenshot
\* f"UNKNOWN_{user.id}_{message.message_id}" (bot.py:544)
UnknownPaymentId(user_id, message_id) ==
    <<"UNKNOWN", "_">> \o Str(user_id) \o <<"_">> \o Str(message_id)

\* user_info (bot.py:550-559); username and first_name come from the
\* transport unchanged and are left out.
UserInfo(u, session) ==
    [full_name |-> Get(session, "full_name", None),
     semester |-> Get(session, "semester", None),
     stream |-> Get(session, "stream", None),
     gender |-> Get(session, "gender", None),
     payment_method |-> Get(session, "payment_method", None),
     user_id |-> u]

PendingInfo_FirstPhoto(u, session, photo_id) ==
    [user_id |-> u,
     full_name |-> Get(session, "full_name", None),
     semester |-> Get(session, "semester", None),
     stream |-> Get(session, "stream", None),
     gender |-> Get(session, "gender", None),
     payment_method |-> Get(session, "payment_method", None),
     payment_id |-> Get(session, "payment_id", UnknownPaymentId(u, photo_id)),
     screenshot_file_id |-> 1,
     user_info |-> UserInfo(u, session)]

\* pending_info (bot.py:563-576); the photo's message sequence number stands
\* for its file_id and its timestamp.
PendingInfo(u, session, photo_id) ==
    [user_id |-> u,
     full_name |-> Get(session, "full_name", None),
     semester |-> Get(session, "semester", None),
     stream |-> Get(session, "stream", None),
     gender |-> Get(session, "gender", None),
     payment_method |-> Get(session, "payment_method", None),
     payment_id |-> Get(session, "payment_id", UnknownPaymentId(u, photo_id)),
     screenshot_file_id |-> photo_id,
     user_info |-> UserInfo(u, session)]

AdminFanOut_StopAtFailure(call, unreachable, arg) ==
    LET down == {i \in DOMAIN ADMIN_IDS : ADMIN_IDS[i] \in unreachable}
        n == IF down = {} THEN Len(ADMIN_IDS)
             ELSE CHOOSE i \in down : \A j \in down : i <= j
    IN [i \in 1..n |-> Call(call, ADMIN_IDS[i], ADMIN_IDS[i] \notin unreachable, arg)]

\* The fan-out loops `for admin_id in ADMIN_IDS: try: send ... except: log`
\* (bot.py:603-612, 853-861): one call per admin, in list order, each failing
\* or not on its own.  unreachable: the admins the transport cannot reach.
AdminFanOut(call, unreachable, arg) ==
    [i \in DOMAIN ADMIN_IDS |->
        Call(call, ADMIN_IDS[i], ADMIN_IDS[i] \notin unreachable, arg)]

Delivered(out) == {out[i].to : i \in {j \in DOMAIN out : out[j].ok}}

StatusAfterScreenshot_Keep(old) == old
\* bot.py:547
StatusAfterScreenshot(old) == "pending"

\* receive_screenshot (bot.py:534-624), reached only with a photo
\* (filters.PHOTO, bot.py:1174).
\* unreachable: admins whose send_photo raises; reply_fails: the confirmation
\* reply_text (bot.py:614) raises, which skips bot.py:623-624.
receive_screenshot(u, unreachable, reply_fails) ==
    /\ RoutePhoto(u) = "receive_screenshot"
    /\ msg_seq < MaxMsgId
    /\ msg_seq' = msg_seq + 1
    /\ LET photo_id == msg_seq + 1
           session == ctx_user_data[u]
           out == AdminFanOut("send_photo", unreachable, <<u, photo_id>>)
       IN
       /\ user_statuses' = Put(user_statuses, u, StatusAfterScreenshot(StatusOf(u)))
       /\ user_data' = Put(user_data, u, UserInfo(u, session))
       /\ pending_reviews' = Put(pending_reviews, u, PendingInfo(u, session, photo_id))
       /\ keyboards' = keyboards \cup
             {Keyboard(a, 0, "approval", Str(u), photo_id) : a \in Delivered(out)}
       /\ IF reply_fails
          THEN /\ UNCHANGED <<ctx_user_data, conversations>>
               /\ last' = Handled("receive_screenshot", u, u, "raised", out)
          ELSE /\ ctx_user_data' = [ctx_user_data EXCEPT ![u] = EmptyDict]
               /\ conversations' = SetConv("registration", u, END)
               /\ last' = Handled("receive_screenshot", u, u, "ok", out)
    /\ UNCHANGED <<pending_comments, gate>>

\* --------------------------------------------------------------- approval
NoMessage == Keyboard(0, 0, "none", <<>>, 0)

ApprovalCalls == {"answer", "log", "invite", "notify", "delete", "edit"}

DecidedStatus_Approved(action) == "approved"
DecidedStatus_Swapped(action) == IF action = <<"approve">> THEN "rejected" ELSE "approved"
\* bot.py:656, 710
DecidedStatus(action) == IF action = <<"approve">> THEN "approved" ELSE "rejected"

ApproveCalls_NoInvite(user_id, shot, fails) ==
    <<Call("send_photo", LOG_CHANNEL_ID, "log" \notin fails, <<user_id, shot>>)>>
\* The outbound calls of the approve branch after the status is set
\* (bot.py:658-706), in order; `fails` are the calls that raise.
ApproveCalls(user_id, shot, fails) ==
    <<Call("send_photo", LOG_CHANNEL_ID, "log" \notin fails, <<user_id, shot>>),
      Call("create_chat_invite_link", MAIN_CHANNEL_ID, "invite" \notin fails, <<1>>)>>
    \o (IF "invite" \in fails THEN <<>>
        ELSE <<Call("send_message", user_id, "notify" \notin fails, <<MAIN_CHANNEL_ID>>)>>)

\* The outbound calls of the reject branch (bot.py:712-758).
RejectCalls(user_id, shot, fails) ==
    <<Call("send_photo", LOG_CHANNEL_ID, "log" \notin fails, <<user_id, shot>>),
      Call("send_message", user_id, "notify" \notin fails, <<>>)>>

PopReview_Keep(queue, user_id) == queue
\* `context.bot_data.get('pending_reviews', {}).pop(user_id, None)` (bot.py:652)
PopReview(queue, user_id) == Pop(queue, user_id)

Authorized_Everyone(admin_id) == TRUE
\* The negation of `if admin_id not in ADMIN_IDS:` (bot.py:635)
Authorized(admin_id) == IsAdmin(admin_id)

\* user_approval_handler (bot.py:629-762).
\* m is the message whose button was pressed (NoMessage when the sender holds
\* none); fails are the awaited calls that raise.  For a decision last.info
\* keeps the photo the pressed message was sent with.
user_approval_handler(a, m, d, fails) ==
    /\ RouteCallback(a, d) = "user_approval_handler"
    /\ UNCHANGED <<user_data, pending_comments, ctx_user_data, conversations,
                   msg_seq, gate>>
    /\ LET parts == Split(d, "_")
           wellformed == Len(parts) = 2 /\ IsDigits(parts[2])
           user_id == IF wellformed THEN ParseInt(parts[2]) ELSE 0
           action == parts[1]
           edited == IF "edit" \in fails THEN keyboards ELSE DropKeyboard(m)
       IN
       IF ~Authorized(a)
       THEN /\ UNCHANGED <<user_statuses, pending_reviews, keyboards>>
            /\ last' = Handled("user_approval_handler", a, user_id, "unauthorized", <<>>)
       ELSE IF "answer" \in fails
       THEN /\ UNCHANGED <<user_statuses, pending_reviews, keyboards>>
            /\ last' = Handled("user_approval_handler", a, user_id, "raised", <<>>)
       ELSE IF ~wellformed
       THEN /\ UNCHANGED <<user_statuses, pending_reviews>>
            /\ keyboards' = edited
            /\ last' = Handled("user_approval_handler", a, 0, "error", <<>>)
       ELSE IF user_id \notin DOMAIN pending_reviews
       THEN /\ UNCHANGED <<user_statuses, pending_reviews>>
            /\ keyboards' = edited
            /\ last' = Handled("user_approval_handler", a, user_id,
                               "already_processed", <<>>)
       ELSE LET entry == pending_reviews[user_id]
                calls == IF action = <<"approve">>
                         THEN ApproveCalls(user_id, entry.screenshot_file_id, fails)
                         ELSE RejectCalls(user_id, entry.screenshot_file_id, fails)
            IN
            /\ pending_reviews' = PopReview(pending_reviews, user_id)
            /\ user_statuses' = Put(user_statuses, user_id, DecidedStatus(action))
            /\ keyboards' = IF "delete" \notin fails THEN DropKeyboard(m) ELSE edited
            /\ last' = [Handled("user_approval_handler", a, user_id,
                                IF action = <<"approve">> THEN "approve" ELSE "reject",
                                Append(calls, Call("delete_message", a,
                                                   "delete" \notin fails, <<>>)))
                        EXCEPT !.info = m.shot]

\* ----------------------------------------------------------------- cancel
\* cancel (bot.py:1057-1079), the /cancel command.  It runs as the fallback of
\* the first conversation the user is in (bot.py:1177, 1189, 1201, 1214), which
\* then ends, or else as the plain command handler (bot.py:1243).
cancel(u, reply_fails) ==
    /\ RouteCancel(u) # "announcement_content"
    /\ UNCHANGED <<bot_data, keyboards, msg_seq, gate>>
    /\ IF reply_fails
       THEN /\ UNCHANGED <<ctx_user_data, conversations>>
            /\ last' = Handled("cancel", u, u, "raised", <<>>)
       ELSE /\ ctx_user_data' = [ctx_user_data EXCEPT ![u] = EmptyDict]
            /\ conversations' =
                  IF RouteCancel(u) = "standalone" THEN conversations
                  ELSE SetConv(RouteCancel(u), u, END)
            /\ last' = Handled("cancel", u, u, "ok", <<>>)

\* The four cancel buttons: cancel_registration_callback (bot.py:767-779),
\* cancel_announcement_callback (781-798), cancel_question_callback (800-814)
\* and cancel_reply_callback (955-972).  Each is registered on its own ahead
\* of the conversation handlers (bot.py:1227-1230), so that registration takes
\* the press and the handler's return value is dropped: no conversation
\* changes state.
CancelButton(h, u, m, d, fail) ==
    /\ Pressed(u, m, d)
    /\ RouteCallback(u, d) = h
    /\ UNCHANGED <<bot_data, conversations, msg_seq, gate>>
    /\ IF fail # "none"
       THEN /\ UNCHANGED <<ctx_user_data, keyboards>>
            /\ last' = Handled(h, u, u, "raised", <<>>)
       ELSE /\ keyboards' = DropKeyboard(m)
            /\ ctx_user_data' = [ctx_user_data EXCEPT ![u] = EmptyDict]
            /\ last' = Handled(h, u, u, "ok", <<>>)

cancel_registration_callback(u, m, fail) ==
    CancelButton("cancel_registration_callback", u, m, CancelRegistrationData, fail)

cancel_announcement_callback(u, m, fail) ==
    CancelButton("cancel_announcement_callback", u, m, CancelAnnouncementData, fail)

cancel_question_callback(u, m, fail) ==
    CancelButton("cancel_question_callback", u, m, CancelQuestionData, fail)

cancel_reply_callback(u, m, fail) ==
    CancelButton("cancel_reply_callback", u, m, CancelReplyData, fail)

\* ------------------------------------------------------------- questions
\* ask_question_start (bot.py:220-238) as the entry point of the question
\* conversation (bot.py:1184).
ask_question_start(u, reply_fails) ==
    /\ RouteText(u, AskQuestionText) = "ask_question_start"
    /\ UNCHANGED <<bot_data, ctx_user_data, msg_seq, gate>>
    /\ IF reply_fails
       THEN /\ UNCHANGED <<conversations, keyboards>>
            /\ last' = Handled("ask_question_start", u, u, "raised", <<>>)
       ELSE /\ keyboards' = keyboards \cup
                  {Keyboard(u, 0, "cancel_question", <<>>, 0)}
            /\ conversations' = SetConv("ask_comment", u, ASK_COMMENT)
            /\ last' = Handled("ask_question_start", u, u, "ok", <<>>)

\* user.first_name, as the transport gives it.
FirstName(u) == <<"tg">> \o Str(u)

\* f"comment_{user.id}_{update.message.message_id}" (bot.py:827)
CommentId(user_id, message_id) ==
    <<"comment", "_">> \o Str(user_id) \o <<"_">> \o Str(message_id)

\* The stored question (bot.py:828-835); timestamp is the message's sequence
\* number.
CommentRecord(u, comment, message_id) ==
    [user_id |-> u,
     user_name |-> IF u \in DOMAIN user_data THEN user_data[u].full_name
                   ELSE FirstName(u),
     semester |-> IF u \in DOMAIN user_data THEN user_data[u].semester
                  ELSE <<"N/A">>,
     comment |-> comment,
     timestamp |-> message_id]

\* receive_comment (bot.py:819-873)
receive_comment(u, t, unreachable, reply_fails) ==
    /\ RouteText(u, t) = "receive_comment"
    /\ msg_seq < MaxMsgId
    /\ msg_seq' = msg_seq + 1
    /\ LET comment_id == CommentId(u, msg_seq + 1)
           out == AdminFanOut("send_message", unreachable, <<u>>)
       IN
       /\ pending_comments' =
             Put(pending_comments, comment_id, CommentRecord(u, t, msg_seq + 1))
       /\ keyboards' = keyboards \cup
             {Keyboard(a, 0, "reply", comment_id, 0) : a \in Delivered(out)}
       /\ IF reply_fails
          THEN /\ UNCHANGED conversations
               /\ last' = Handled("receive_comment", u, u, "raised", out)
          ELSE /\ conversations' = SetConv("ask_comment", u, END)
               /\ last' = Handled("receive_comment", u, u, "ok", out)
    /\ UNCHANGED <<user_statuses, user_data, pending_reviews, ctx_user_data, gate>>

\* str.replace(old, ''): every occurrence of the two-token string `old` is
\* removed.
RECURSIVE RemoveAll(_, _)
RemoveAll(s, old) ==
    IF s = <<>> THEN <<>>
    ELSE IF Len(s) >= 2 /\ SubSeq(s, 1, 2) = old
        THEN RemoveAll(SubSeq(s, 3, Len(s)), old)
    ELSE <<Head(s)>> \o RemoveAll(Tail(s), old)

\* reply_to_comment_start (bot.py:875-905)
reply_to_comment_start(a, m, d, fail) ==
    /\ Pressed(a, m, d)
    /\ RouteCallback(a, d) = "reply_to_comment_start"
    /\ UNCHANGED <<bot_data, msg_seq, gate>>
    /\ LET comment_id == RemoveAll(d, <<"reply", "_">>) IN
       IF fail = "answer"
       THEN /\ UNCHANGED <<ctx_user_data, conversations, keyboards>>
            /\ last' = Handled("reply_to_comment_start", a, 0, "raised", <<>>)
       ELSE IF comment_id \notin DOMAIN pending_comments
       THEN /\ UNCHANGED <<ctx_user_data, conversations>>
            /\ keyboards' = IF fail = "edit" THEN keyboards ELSE DropKeyboard(m)
            /\ last' = Handled("reply_to_comment_start", a, 0,
                               IF fail = "edit" THEN "raised" ELSE "already_replied",
                               <<>>)
       ELSE LET c == pending_comments[comment_id] IN
            /\ ctx_user_data' =
                  [ctx_user_data EXCEPT
                      ![a] = Put(Put(Put(@, "reply_comment_id", comment_id),
                                     "reply_user_id", c.user_id),
                                 "reply_user_name", c.user_name)]
            /\ IF fail = "edit"
               THEN /\ UNCHANGED <<conversations, keyboards>>
                    /\ last' = Handled("reply_to_comment_start", a, c.user_id,
                                       "raised", <<>>)
               ELSE /\ keyboards' = EditKeyboard(m, "cancel_reply")
                    /\ conversations' = SetConv("reply_comment", a, REPLY_TO_COMMENT)
                    /\ last' = Handled("reply_to_comment_start", a, c.user_id,
                                       "ok", <<>>)

\* send_reply_to_user (bot.py:907-953).  fails, the calls that raise: "send"
\* (the message to the asker, bot.py:930), "ack" (the "Reply sent
\* successfully!" reply_text, inside the same try, bot.py:942), "notice" (the
\* reply_text of the except branch, bot.py:950, and the one of the expired
\* session, bot.py:920).  Results: "sent", "failed" (the send raised and the
\* admin was told), "told_failed" (the send went through, the ack raised and
\* the admin was told of a failure), "expired", "raised".  last.info keeps the
\* comment id the reply was for.
send_reply_to_user(a, t, fails) ==
    /\ RouteText(a, t) = "send_reply_to_user"
    /\ UNCHANGED <<user_statuses, user_data, pending_reviews, keyboards,
                   msg_seq, gate>>
    /\ LET session == ctx_user_data[a]
           cleared == [ctx_user_data EXCEPT ![a] = EmptyDict]
       IN
       IF "reply_comment_id" \notin DOMAIN session
          \/ "reply_user_id" \notin DOMAIN session
       THEN /\ UNCHANGED pending_comments
            /\ IF "notice" \in fails
               THEN /\ UNCHANGED <<ctx_user_data, conversations>>
                    /\ last' = Handled("send_reply_to_user", a, 0, "raised", <<>>)
               ELSE /\ ctx_user_data' = cleared
                    /\ conversations' = SetConv("reply_comment", a, END)
                    /\ last' = Handled("send_reply_to_user", a, 0, "expired", <<>>)
       ELSE LET user_id == session["reply_user_id"]
                comment_id == session["reply_comment_id"]
                out == <<Call("send_message", user_id, "send" \notin fails, <<>>)>>
                in_except == "send" \in fails \/ "ack" \in fails
                done(res) == [Handled("send_reply_to_user", a, user_id, res, out)
                              EXCEPT !.info = comment_id]
            IN
            /\ pending_comments' = Pop(pending_comments, comment_id)
            /\ IF in_except /\ "notice" \in fails
               THEN /\ UNCHANGED <<ctx_user_data, conversations>>
                    /\ last' = done("raised")
               ELSE /\ ctx_user_data' = cleared
                    /\ conversations' = SetConv("reply_comment", a, END)
                    /\ last' = done(IF "send" \in fails THEN "failed"
                                    ELSE IF "ack" \in fails THEN "told_failed"
                                    ELSE "sent")

\* ---------------------------------------------------------- announcements
\* announcement_start (bot.py:270-285): sends the cohort buttons.
SendCohortPrompt(u) == keyboards \cup {Keyboard(u, 0, "announce", <<>>, 0)}

\* announcement_start as the entry point of the announcement conversation
\* (bot.py:1208).
announcement_start(u, reply_fails) ==
    /\ RouteText(u, SendAnnouncementText) = "announcement_start"
    /\ UNCHANGED <<bot_data, ctx_user_data, msg_seq, gate>>
    /\ IF reply_fails
       THEN /\ UNCHANGED <<conversations, keyboards>>
            /\ last' = Handled("announcement_start", u, 0, "raised", <<>>)
       ELSE /\ keyboards' = SendCohortPrompt(u)
            /\ conversations' = SetConv("announcement", u, ANNOUNCEMENT_SEMESTER)
            /\ last' = Handled("announcement_start", u, 0, "ok", <<>>)

\* announcement_semester (bot.py:977-995)
announcement_semester(u, m, d, fail) ==
    /\ Pressed(u, m, d)
    /\ RouteCallback(u, d) = "announcement_semester"
    /\ UNCHANGED <<bot_data, msg_seq, gate>>
    /\ IF fail = "answer"
       THEN /\ UNCHANGED <<ctx_user_data, conversations, keyboards>>
            /\ last' = Handled("announcement_semester", u, 0, "raised", <<>>)
       ELSE /\ ctx_user_data' =
                  [ctx_user_data EXCEPT
                      ![u] = Put(@, "announcement_semester", SplitArg(d))]
            /\ IF fail = "edit"
               THEN /\ UNCHANGED <<conversations, keyboards>>
                    /\ last' = Handled("announcement_semester", u, 0, "raised", <<>>)
               ELSE /\ keyboards' = EditKeyboard(m, "cancel_announcement")
                    /\ conversations' =
                          SetConv("announcement", u, ANNOUNCEMENT_CONTENT)
                    /\ last' = Handled("announcement_semester", u, 0, "ok", <<>>)

InCohort_Any(semester, user_semester) == TRUE
\* `semester == 'all' or user_semester == semester` (bot.py:1011)
InCohort(semester, user_semester) ==
    semester = <<"all">> \/ user_semester = semester

\* target_users (bot.py:1007-1012)
TargetUsers(semester) ==
    {id \in DOMAIN user_statuses :
        /\ user_statuses[id] = "approved"
        /\ InCohort(semester,
                    IF id \in DOMAIN user_data THEN user_data[id].semester ELSE None)}

\* The users of a set, in ascending order.
RECURSIVE Ascending(_)
Ascending(S) ==
    IF S = {} THEN <<>>
    ELSE LET x == CHOOSE y \in S : \A z \in S : y <= z
         IN  <<x>> \o Ascending(S \ {x})

\* The relay loop (bot.py:1018-1035): a text is sent with send_message, a
\* photo with send_photo, anything else with no call at all.
RelayCalls(targets, kind, unreachable) ==
    IF kind = "other" THEN <<>>
    ELSE [i \in DOMAIN Ascending(targets) |->
            Call(IF kind = "text" THEN "send_message" ELSE "send_photo",
                 Ascending(targets)[i], Ascending(targets)[i] \notin unreachable,
                 <<>>)]

\* sent_count and failed_count (bot.py:1015-1035)
SentCount(targets, kind, unreachable) ==
    IF kind = "other" THEN Cardinality(targets)
    ELSE Cardinality(targets \ unreachable)

FailedCount(targets, kind, unreachable) ==
    IF kind = "other" THEN 0 ELSE Cardinality(targets \cap unreachable)

\* Whether a message of this kind from u reaches announcement_content
\* (filters.ALL in ANNOUNCEMENT_CONTENT, bot.py:1211): a text, a photo, a
\* document, or a /start or /cancel command no earlier handler takes.
RoutesToContent(u, kind, t) ==
    \/ kind = "text" /\ RouteText(u, t) = "announcement_content"
    \/ kind = "photo" /\ RoutePhoto(u) = "announcement_content"
    \/ kind = "other" /\ RouteOther(u) = "announcement_content"
    \/ kind = "/cancel" /\ RouteCancel(u) = "announcement_content"
    \/ kind = "/start" /\ RouteStart(u) = "announcement_content"

\* announcement_content (bot.py:997-1052).  unreachable: the users a send to
\* raises for; reply_fails: the summary reply_text raises.  last.info keeps the
\* two counts of the summary, the kind of content and the cohort read from the
\* session.
announcement_content(u, kind, t, unreachable, reply_fails) ==
    /\ RoutesToContent(u, kind, t)
    /\ UNCHANGED <<bot_data, keyboards, msg_seq, gate>>
    /\ LET semester == Get(ctx_user_data[u], "announcement_semester", <<"all">>)
           targets == TargetUsers(semester)
           content == IF kind \in {"photo", "other"} THEN kind ELSE "text"
           done == [Handled("announcement_content", u, 0,
                            IF reply_fails THEN "raised" ELSE "ok",
                            RelayCalls(targets, content, unreachable))
                    EXCEPT !.info = <<SentCount(targets, content, unreachable),
                                      FailedCount(targets, content, unreachable),
                                      content, semester>>]
       IN
       /\ last' = done
       /\ IF reply_fails
          THEN UNCHANGED <<ctx_user_data, conversations>>
          ELSE /\ ctx_user_data' = [ctx_user_data EXCEPT ![u] = EmptyDict]
               /\ conversations' = SetConv("announcement", u, END)

\* ------------------------------------------------------------ menu buttons
\* The comments view_pending_questions lists (bot.py:355): the first five, in
\* the order they were stored.
FirstFive(comments) ==
    {c \in DOMAIN comments :
        Cardinality({o \in DOMAIN comments :
                        comments[o].timestamp < comments[c].timestamp}) < 5}

\* handle_menu_buttons (bot.py:187-217) with the handlers it calls:
\* clear_pending_requests (330-340), view_pending_questions (342-370),
\* announcement_start (270-285).  It takes the texts no conversation takes;
\* "Ask Question" never gets here (bot.py:1184 comes first).
handle_menu_buttons(u, t, reply_fails) ==
    /\ RouteText(u, t) = "handle_menu_buttons"
    /\ UNCHANGED <<user_statuses, user_data, pending_comments, ctx_user_data,
                   conversations, msg_seq, gate>>
    /\ last' = Handled("handle_menu_buttons", u, 0,
                       IF reply_fails THEN "raised" ELSE "ok", <<>>)
    /\ pending_reviews' =
          IF IsAdmin(u) /\ t = ClearPendingText THEN EmptyDict ELSE pending_reviews
    /\ keyboards' =
          IF ~IsAdmin(u) \/ reply_fails THEN keyboards
          ELSE IF t = SendAnnouncementText THEN SendCohortPrompt(u)
          ELSE IF t = <<"View", " ", "Questions">>
              THEN keyboards \cup
                   {Keyboard(u, 0, "reply", c, 0) : c \in FirstFive(pending_comments)}
          ELSE keyboards

\* ------------------------------------------------------------- access gate
GateCalls == {"ban", "unban", "log"}

ShouldRemove_Always(invite_link, status) == TRUE
\* `if invite_link:` ... `if user_status != 'approved':` (bot.py:1109-1111)
ShouldRemove(invite_link, status) == invite_link /\ status # "approved"

\* The calls made for one joining member (bot.py:1112-1131): ban, then unban
\* unless ban raised, then the note to the log channel.
MemberCalls(user_id, fails) ==
    <<Call("ban_chat_member", MAIN_CHANNEL_ID, "ban" \notin fails, <<user_id>>)>>
    \o (IF "ban" \in fails THEN <<>>
        ELSE <<Call("unban_chat_member", MAIN_CHANNEL_ID, "unban" \notin fails,
                    <<user_id>>)>>)
    \o <<Call("send_message", LOG_CHANNEL_ID, "log" \notin fails, <<user_id>>)>>

RECURSIVE GateOut(_, _, _)
GateOut(joiners, invite_link, fails) ==
    IF joiners = <<>> THEN <<>>
    ELSE (IF ShouldRemove(invite_link, StatusOf(Head(joiners)))
          THEN MemberCalls(Head(joiners), fails) ELSE <<>>)
         \o GateOut(Tail(joiners), invite_link, fails)

Range(seq) == {seq[i] : i \in DOMAIN seq}

\* A join event of `joiners` in chat `chat`, carrying an invite link or not,
\* and handle_new_chat_members (bot.py:1085-1134), which is registered for
\* the main channel only (bot.py:1246-1249).
handle_new_chat_members(chat, joiners, invite_link, fails) ==
    /\ Range(joiners) \cap (members \cup banned) = {}
    /\ UNCHANGED <<bot_data, ctx_user_data, conversations, keyboards, msg_seq>>
    /\ IF chat # MAIN_CHANNEL_ID
       THEN /\ UNCHANGED gate
            /\ last' = Handled("unhandled", 0, 0, "other_chat", <<>>)
       ELSE LET removed == {j \in Range(joiners) :
                               ShouldRemove(invite_link, StatusOf(j))}
            IN
            /\ members' = members \cup
                  (Range(joiners) \ (IF "ban" \in fails THEN {} ELSE removed))
            /\ banned' = banned \cup
                  (IF "ban" \notin fails /\ "unban" \in fails THEN removed ELSE {})
            /\ last' = [Handled("handle_new_chat_members", 0, 0,
                                IF invite_link THEN "link" ELSE "no_link",
                                GateOut(joiners, invite_link, fails))
                        EXCEPT !.info = joiners]

\* ------------------------------------------------------------ environment
AdminSet == Range(ADMIN_IDS)

\* The texts users type.
NameInputs == {<<" ">>, <<" ", " ">>, <<" ", "Abel", " ">>}
QuestionInputs == {<<"Why?">>}
ReplyInputs == {<<"Because">>}
ContentInputs == {<<"News">>}
MenuInputs == {ClearPendingText, SendAnnouncementText,
               <<"View", " ", "Questions">>, <<"Why?">>}

\* The approve / reject tokens a sender who holds no approval message can
\* still put in a callback query.
ForgedApprovals ==
    {CallbackData(act, Str(x)) : act \in {"approve", "reject"}, x \in Users}

\* Join events: one or two users joining at once.
JoinLists ==
    {<<x>> : x \in Users} \cup {p \in Users \X Users : p[1] # p[2]}

StepFails == {"none", "answer", "edit"}

\* Every callback token a keyboard can carry.
AllData == UNION {Buttons(Keyboard(0, 0, kb, <<>>, 0)) :
                    kb \in {"semester", "stream_first", "stream_second",
                            "gender", "method"}}

\* One path through the registration buttons per semester.
PlainData ==
    {CallbackData("semester", FirstSemester),
     CallbackData("semester", SecondSemester),
     CallbackData("stream", <<"Social Science">>),
     CallbackData("gender", <<"Male">>),
     CallbackData("method", <<"CBE">>)}

\* One path through the registration buttons.
ReviewData == PlainData \ {CallbackData("semester", SecondSemester)}

\* The registration updates: /start, Get Started, the name, the four button
\* steps and the photo.  sf, bf: the transport failures that may happen;
\* data: the buttons users press; admins_down: the sets of admins that may be
\* unreachable; who: the users that send /start.
RegistrationOver(who, sf, bf, data, admins_down) ==
    \/ \E u \in who, f \in bf : start(u, f)
    \/ \E m \in keyboards, f \in sf : handle_get_started_callback(m.chat, m, f)
    \/ \E u \in Users, t \in NameInputs, f \in bf : get_full_name(u, t, f)
    \/ \E m \in keyboards, f \in sf :
          \E d \in Buttons(m) \cap data : get_semester(m.chat, m, d, f)
    \/ \E m \in keyboards, f \in sf :
          \E d \in Buttons(m) \cap data : get_stream(m.chat, m, d, f)
    \/ \E m \in keyboards, f \in sf :
          \E d \in Buttons(m) \cap data : get_gender(m.chat, m, d, f)
    \/ \E m \in keyboards, f \in sf :
          \E d \in Buttons(m) \cap data : get_payment_method(m.chat, m, d, f)
    \/ \E u \in Users, unreachable \in admins_down, f \in bf :
          receive_screenshot(u, unreachable, f)

\* The approve / reject updates: a press on an approval message, or a forged
\* token from a user who is no admin.
ApprovalOver(failsets) ==
    \/ \E m \in keyboards, fails \in failsets :
          \E d \in Buttons(m) : user_approval_handler(m.chat, m, d, fails)
    \/ \E a \in Users \ AdminSet, d \in ForgedApprovals :
          user_approval_handler(a, NoMessage, d, {})

CancelCommandOf(who) == \E u \in who, f \in BOOLEAN : cancel(u, f)

CancelRegistration ==
    \E m \in keyboards, f \in StepFails : cancel_registration_callback(m.chat, m, f)

CancelQuestion ==
    \E m \in keyboards, f \in StepFails : cancel_question_callback(m.chat, m, f)

CancelReply ==
    \E m \in keyboards, f \in StepFails : cancel_reply_callback(m.chat, m, f)

CancelAnnouncement ==
    \E m \in keyboards, f \in StepFails :
       cancel_announcement_callback(m.chat, m, f)

\* The question updates.  askers: the users that send "Ask Question" and a
\* question; the admins reply.
QuestionsOver(askers, admins_down, sf, bf) ==
    \/ \E u \in askers, f \in bf : ask_question_start(u, f)
    \/ \E u \in askers, t \in QuestionInputs, unreachable \in admins_down,
          f \in bf : receive_comment(u, t, unreachable, f)
    \/ \E m \in keyboards, f \in sf :
          \E d \in Buttons(m) : reply_to_comment_start(m.chat, m, d, f)
    \/ \E a \in AdminSet, t \in ReplyInputs, fails \in SUBSET {"send", "ack", "notice"} :
          send_reply_to_user(a, t, fails)

\* The announcement updates.  senders: the users that send "Send
\* Announcement" and the content.
AnnouncementsOver(senders, kinds, users_down, sf, bf) ==
    \/ \E u \in senders, f \in bf : announcement_start(u, f)
    \/ \E m \in keyboards, f \in sf :
          \E d \in Buttons(m) : announcement_semester(m.chat, m, d, f)
    \/ \E u \in senders, kind \in kinds, t \in ContentInputs,
          unreachable \in users_down, f \in bf :
          announcement_content(u, kind, t, unreachable, f)

ContentKinds == {"text", "photo", "other", "/cancel", "/start"}

MenuOver(texts) ==
    \E u \in Users, t \in texts, f \in BOOLEAN : handle_menu_buttons(u, t, f)

Gate ==
    \E chat \in {MAIN_CHANNEL_ID, OtherChatId}, joiners \in JoinLists,
       link \in BOOLEAN, fails \in SUBSET GateCalls :
       handle_new_chat_members(chat, joiners, link, fails)

\* The failure patterns of a handler that awaits `calls`: none raises, one of
\* them raises, all of them raise.
FailurePatterns(calls) == {{}, calls} \cup {{c} : c \in calls}

\* The failure patterns of the approve / reject handler; the last one has
\* every call after the answer raise.
ApprovalFailures ==
    FailurePatterns(ApprovalCalls) \cup {ApprovalCalls \ {"answer"}}

\* ---------------------------------------------------------- specifications
\* Registration and review: every registration update with every transport
\* failure, approve / reject, both kinds of cancel, Clear Pending.
Next ==
    \/ RegistrationOver(Users \ AdminSet, StepFails, BOOLEAN, ReviewData,
                        {{}, AdminSet})
    \/ ApprovalOver(ApprovalFailures)
    \/ CancelCommandOf(Users \ AdminSet)
    \/ CancelRegistration
    \/ MenuOver({ClearPendingText})

Spec == Init /\ [][Next]_vars

\* Questions and replies.  The question handlers read no status, so the
\* directory is left as Init has it: nobody has registered.
NextAsk ==
    \/ QuestionsOver(Users \ AdminSet, {{}}, {"none"}, {FALSE})
    \/ CancelQuestion

SpecAsk == Init /\ [][NextAsk]_vars

\* Announcements, over a directory filled by failure-free registrations and
\* reviews.
NextAnnounce ==
    \/ RegistrationOver(Users \ AdminSet, {"none"}, {FALSE}, ReviewData, {{}})
    \/ ApprovalOver({{}})
    \/ AnnouncementsOver({1} \cup (Users \ AdminSet), ContentKinds,
                         {{}}, {"none"}, {FALSE})
    \/ CancelAnnouncement

SpecAnnounce == Init /\ [][NextAnnounce]_vars

\* The access gate, over a directory filled by failure-free registrations and
\* reviews.
NextGate ==
    \/ RegistrationOver(Users \ AdminSet, {"none"}, {FALSE}, PlainData, {{}})
    \/ ApprovalOver({{}})
    \/ Gate

SpecGate == Init /\ [][NextGate]_vars

\* Announcements over every directory: the students are users other than the
\* ones that act, each with any status and any stored semester (None is what
\* a submission made with an emptied session stores).
NumStudents == 3
Students == (NumUsers + 1)..(NumUsers + NumStudents)

StoredSemesters == {FirstSemester, SecondSemester, None}

\* The user_data entry of a student (bot.py:550-560).
StoredInfo(id, semester) ==
    [full_name |-> <<"Abel">>, semester |-> semester,
     stream |-> <<"Natural Science">>, gender |-> <<"Male">>,
     payment_method |-> <<"CBE">>, user_id |-> id]

DirectoryEntries ==
    {<<"none", None>>} \cup ({"pending", "approved", "rejected"} \X StoredSemesters)

\* The state after construction with the directory holding, for every
\* student, one of `entries`.
InitOver(entries) ==
    \E dir \in [Students -> entries] :
       LET known == {id \in Students : dir[id][1] # "none"} IN
       /\ user_statuses = [id \in known |-> dir[id][1]]
       /\ user_data = [id \in known |-> StoredInfo(id, dir[id][2])]
       /\ pending_reviews = EmptyDict
       /\ pending_comments = EmptyDict
       /\ ctx_user_data = [u \in Users |-> EmptyDict]
       /\ conversations = [c \in ConvNames |-> [u \in Users |-> END]]
       /\ keyboards = {}
       /\ msg_seq = 0
       /\ members = {}
       /\ banned = {}
       /\ last = Handled("init", 0, 0, "ok", <<>>)

InitCohort == InitOver(DirectoryEntries)

NextCohort ==
    \/ AnnouncementsOver({1}, {"text", "photo", "other"}, SUBSET Students,
                         {"none"}, {FALSE})
    \/ \E m \in keyboards : cancel_announcement_callback(m.chat, m, "none")

SpecCohort == InitCohort /\ [][NextCohort]_vars

\* The three fan-outs with every set of unreachable recipients: a submission
\* and a question of the registrant go to the admins, an announcement of
\* admin 1 goes to the students, all of them approved.
InitFanOut == InitOver({<<"approved", FirstSemester>>})

NextFanOut ==
    \/ RegistrationOver(Users \ AdminSet, {"none"}, {FALSE}, ReviewData,
                        SUBSET AdminSet)
    \/ \E u \in Users \ AdminSet : ask_question_start(u, FALSE)
    \/ \E u \in Users \ AdminSet, t \in QuestionInputs,
          unreachable \in SUBSET AdminSet : receive_comment(u, t, unreachable, FALSE)
    \/ AnnouncementsOver({1}, {"text", "photo"}, SUBSET Students, {"none"}, {FALSE})

SpecFanOut == InitFanOut /\ [][NextFanOut]_vars

\* What the registrant can type while registering: the registration updates
\* without transport failures, "Ask Question", a question, any other text.
NextAwaiting ==
    \/ RegistrationOver(Users \ AdminSet, {"none"}, {FALSE}, ReviewData, {{}})
    \/ \E u \in Users \ AdminSet : ask_question_start(u, FALSE)
    \/ \E u \in Users \ AdminSet, t \in QuestionInputs :
          receive_comment(u, t, {}, FALSE)
    \/ MenuOver(QuestionInputs)

SpecAwaiting == Init /\ [][NextAwaiting]_vars

\* Registration through every offered button, with the /cancel command and
\* without transport failures.
NextButtons ==
    \/ RegistrationOver(Users \ AdminSet, {"none"}, {FALSE}, AllData, {{}})
    \/ CancelCommandOf(Users \ AdminSet)

SpecButtons == Init /\ [][NextButtons]_vars

\* The payment id as a function of its two inputs (bot.py:499-500): one
\* derivation after another, over every user id and message id up to the
\* bounds; `last` keeps the inputs (by, on) and the id derived (info).
MaxUserId == 12
MaxMessageId == 23

Derived(user_id, message_id) ==
    [Handled("payment_id", user_id, message_id, "ok", <<>>)
     EXCEPT !.info = PaymentId(user_id, message_id)]

derive_payment_id(user_id, message_id) ==
    /\ last' = Derived(user_id, message_id)
    /\ UNCHANGED <<bot_data, ctx_user_data, conversations, keyboards, msg_seq, gate>>

InitPayment ==
    /\ user_statuses = EmptyDict
    /\ user_data = EmptyDict
    /\ pending_reviews = EmptyDict
    /\ pending_comments = EmptyDict
    /\ ctx_user_data = [u \in Users |-> EmptyDict]
    /\ conversations = [c \in ConvNames |-> [u \in Users |-> END]]
    /\ keyboards = {}
    /\ msg_seq = 0
    /\ members = {}
    /\ banned = {}
    /\ \E user_id \in 1..MaxUserId, message_id \in 1..MaxMessageId :
          last = Derived(user_id, message_id)

NextPayment ==
    \E user_id \in 1..MaxUserId, message_id \in 1..MaxMessageId :
       derive_payment_id(user_id, message_id)

SpecPayment == InitPayment /\ [][NextPayment]_vars

\* ------------------------------------------------------------------ claims
ApprovalRan == last.h = "user_approval_handler"

CancelHandlers == {"cancel", "cancel_registration_callback"}

\* The status changes of the documented life cycle.
AllowedTransitions ==
    {<<"none", "pending">>, <<"pending", "approved">>,
     <<"pending", "rejected">>, <<"rejected", "pending">>}

\* C1: in every step, every user's status either stays as it was or changes
\* along unregistered -> pending, pending -> approved, pending -> rejected or
\* rejected -> pending; in particular an approved status never changes.
C1_StatusTransitions ==
    [][\A u \in Users :
          \/ StatusOf(u)' = StatusOf(u)
          \/ <<StatusOf(u), StatusOf(u)'>> \in AllowedTransitions]_vars

\* C2: every approve / reject an admin sends for a well-formed user id either
\* finds the user's entry, removes it and sets the status to its own decision,
\* or finds no entry, reports "already processed" and changes neither the
\* directory's statuses nor the queue.  Of two actions on one entry the first
\* handled is therefore the only one that decides.
C2_OneDecides ==
    [][(last'.h = "user_approval_handler"
        /\ last'.res \in {"approve", "reject", "already_processed"})
       => IF last'.on \in DOMAIN pending_reviews
          THEN /\ last'.on \notin DOMAIN pending_reviews'
               /\ \/ /\ last'.res = "approve"
                     /\ Get(user_statuses', last'.on, "none") = "approved"
                  \/ /\ last'.res = "reject"
                     /\ Get(user_statuses', last'.on, "none") = "rejected"
          ELSE /\ last'.res = "already_processed"
               /\ UNCHANGED <<user_statuses, pending_reviews>>]_vars

\* C2 witness: an admin's action on a user whose entry another action has
\* already decided was answered with "already processed".
C2_Witness ==
    /\ ApprovalRan
    /\ last.res = "already_processed"
    /\ last.by \in AdminSet
    /\ StatusOf(last.on) \in {"approved", "rejected"}
    /\ last.on \notin DOMAIN pending_reviews

\* C3: after a cancel (the button or /cancel) that was acknowledged, the
\* cancelling user's registration flow is Idle.
C3_CancelEndsRegistration ==
    (last.h \in CancelHandlers /\ last.res = "ok") => Reg(last.by) = END

\* C4: a cancel changes no status and no queue entry and leaves the
\* cancelling user's session empty.
C4_CancelFrame ==
    [][last'.h \in CancelHandlers
       => /\ UNCHANGED <<user_statuses, pending_reviews>>
          /\ ctx_user_data'[last'.by] = EmptyDict]_vars

\* C5: a user enters ComposingQuestion only with status approved, and a
\* question is stored and forwarded to the admins only for an approved user.
C5_OnlyApprovedAsk ==
    /\ (last.h = "ask_question_start" /\ last.res = "ok")
          => StatusOf(last.by) = "approved"
    /\ last.h = "receive_comment" => StatusOf(last.by) = "approved"

\* C6: only admins are ever in SelectingCohort or ComposingContent, and the
\* content relayed to the cohort always comes from an admin.
C6_AdminOnlyAnnouncement ==
    /\ \A u \in Users :
          Ann(u) \in {ANNOUNCEMENT_SEMESTER, ANNOUNCEMENT_CONTENT} => u \in AdminSet
    /\ (last.h = "announcement_content" /\ last.out # <<>>) => last.by \in AdminSet

\* C7: an approve / reject sent by a user who is no admin changes no status,
\* no queue entry and no profile, and makes no outbound call: no invite is
\* minted and nobody is notified.
C7_NonAdminChangesNothing ==
    [][(last'.h = "user_approval_handler" /\ last'.by \notin AdminSet)
       => /\ UNCHANGED <<user_statuses, pending_reviews, user_data>>
          /\ last'.res = "unauthorized"
          /\ last'.out = <<>>]_vars

\* C7 witness: a user who is no admin sent approve / reject for a user whose
\* entry is in the queue, and the entry is still there with status pending.
C7_Witness ==
    /\ ApprovalRan
    /\ last.by \notin AdminSet
    /\ last.on \in DOMAIN pending_reviews
    /\ StatusOf(last.on) = "pending"

\* Every call the handler made after setting the status raised.
AllCallsFailed == last.out # <<>> /\ \A i \in DOMAIN last.out : ~last.out[i].ok

AllCallsDelivered == \A i \in DOMAIN last.out : last.out[i].ok

\* C8: when an admin's approve / reject finds the user's entry and the
\* handler gets past answering the query, the entry is gone and the status is
\* the decision after the step, whichever of the later calls (audit log,
\* invite, notification, deletion, the error notice) raise.
C8_DecisionSurvivesFailures ==
    [][(/\ last'.h = "user_approval_handler"
        /\ last'.by \in AdminSet
        /\ last'.res \notin {"raised", "error"}
        /\ last'.on \in DOMAIN pending_reviews)
       => /\ last'.on \notin DOMAIN pending_reviews'
          /\ Get(user_statuses', last'.on, "none") =
                (IF last'.res = "approve" THEN "approved" ELSE "rejected")
          /\ last'.res \in {"approve", "reject"}]_vars

\* C8 witness: an approval whose audit log, invite and deletion calls all
\* raised; the user is approved and has no entry.
C8_Witness ==
    /\ ApprovalRan
    /\ last.res = "approve"
    /\ AllCallsFailed
    /\ StatusOf(last.on) = "approved"
    /\ last.on \notin DOMAIN pending_reviews

\* The calls of `out` that name `call`.
CallsNamed(out, call) == {i \in DOMAIN out : out[i].call = call}

\* C9: after an approve that found the entry and whose outbound calls all
\* succeeded, the user is approved and has no entry, exactly one invite was
\* minted, for the gated channel and with member_limit 1, and the message
\* carrying it went to that user and to nobody else.
C9_ApproveDeliversOneInvite ==
    (ApprovalRan /\ last.res = "approve" /\ AllCallsDelivered)
    => /\ StatusOf(last.on) = "approved"
       /\ last.on \notin DOMAIN pending_reviews
       /\ Cardinality(CallsNamed(last.out, "create_chat_invite_link")) = 1
       /\ \A i \in CallsNamed(last.out, "create_chat_invite_link") :
             last.out[i].to = MAIN_CHANNEL_ID /\ last.out[i].arg = <<1>>
       /\ Cardinality(CallsNamed(last.out, "send_message")) = 1
       /\ \A i \in CallsNamed(last.out, "send_message") :
             last.out[i].to = last.on /\ last.out[i].arg = <<MAIN_CHANNEL_ID>>

\* C9 witness: an approve of a queued user with every call delivered.
C9_Witness ==
    /\ ApprovalRan
    /\ last.res = "approve"
    /\ AllCallsDelivered
    /\ last.by \in AdminSet
    /\ last.on \in Users \ AdminSet

\* The calls of `out` made about user j, in order.
CallsAbout(out, j) == SelectSeq(out, LAMBDA c : c.arg = <<j>>)

IsAuditNote(c) == c.call = "send_message" /\ c.to = LOG_CHANNEL_ID

AuditNotes(out, j) ==
    {i \in DOMAIN CallsAbout(out, j) : IsAuditNote(CallsAbout(out, j)[i])}

\* Nobody left the gated channel and nobody was banned in this step.
RemovesNobody == members \subseteq members' /\ banned' = banned

C11_LatestScreenshotWins ==
    [][/\ \A k \in DOMAIN pending_reviews' : pending_reviews'[k].user_id = k
       /\ last'.h = "receive_screenshot"
          => /\ last'.by \in DOMAIN pending_reviews'
             /\ pending_reviews'[last'.by].screenshot_file_id = msg_seq'
             /\ msg_seq' > msg_seq
             /\ DOMAIN pending_reviews' = DOMAIN pending_reviews \cup {last'.by}]_vars

\* C11 witness: the user sent a second screenshot while both admins still
\* held the undecided request for the first; the entry is the second one.
C11_Witness ==
    /\ last.h = "receive_screenshot"
    /\ last.by \in DOMAIN pending_reviews
    /\ pending_reviews[last.by].screenshot_file_id = msg_seq
    /\ \A a \in AdminSet : \E m \in keyboards :
          /\ m.chat = a
          /\ m.kb = "approval"
          /\ m.ref = Str(last.by)
          /\ m.shot < msg_seq

\* C12: a Get Started press handled from Idle enters AwaitingFullName exactly
\* when the presser's status at that moment is neither approved nor pending
\* (the press being one whose answer and edit go through); for an approved or
\* pending presser the flow stays Idle, and in every case the directory and the
\* queues are left as they were.
C12_BeginGuard ==
    [][last'.h = "handle_get_started_callback"
       => LET u == last'.by
              status == Get(user_statuses, u, "none")
          IN /\ UNCHANGED bot_data
             /\ Reg(u) = END
             /\ Get(conversations'["registration"], u, END) \in {END, GET_FULL_NAME}
             /\ status \in {"approved", "pending"}
                => /\ Get(conversations'["registration"], u, END) = END
                   /\ ctx_user_data' = ctx_user_data
             /\ (last'.res # "raised" /\ status \notin {"approved", "pending"})
                => Get(conversations'["registration"], u, END) = GET_FULL_NAME]_vars

\* C12 witness: a user whose submission is under review pressed Get Started on
\* a welcome message and was turned away.
C12_Witness ==
    /\ last.h = "handle_get_started_callback"
    /\ last.res = "short_circuit"
    /\ StatusOf(last.by) = "pending"
    /\ last.by \in DOMAIN pending_reviews
    /\ Reg(last.by) = END


CollectedKeys ==
    {"full_name", "semester", "stream", "gender", "payment_method", "payment_id"}

\* C13 as stated: after a screenshot step the queue entry of the sender holds
\* what the session had collected and the image, the status is pending, every
\* admin was sent the submission bound to the sender's id, the session is
\* empty and the registration flow is Idle.
C13_ScreenshotCompletes ==
    [][last'.h = "receive_screenshot"
       => LET u == last'.by
              session == ctx_user_data[u]
          IN /\ u \in DOMAIN pending_reviews'
             /\ \A k \in CollectedKeys \cap DOMAIN session :
                   pending_reviews'[u][k] = session[k]
             /\ pending_reviews'[u].screenshot_file_id = msg_seq'
             /\ Get(user_statuses', u, "none") = "pending"
             /\ \A a \in AdminSet : \E i \in DOMAIN last'.out :
                   /\ last'.out[i].to = a
                   /\ last'.out[i].call = "send_photo"
                   /\ last'.out[i].arg = <<u, msg_seq'>>
             /\ ctx_user_data'[u] = EmptyDict
             /\ Get(conversations'["registration"], u, END) = END]_vars


\* The users the claim names for a cohort: approved, and stored under the
\* semester of the cohort unless the cohort is everyone.
CohortMembers(cohort) ==
    {id \in DOMAIN user_statuses :
        /\ user_statuses[id] = "approved"
        /\ \/ cohort = <<"all">>
           \/ id \in DOMAIN user_data /\ user_data[id].semester = cohort}

Recipients(out) == {out[i].to : i \in DOMAIN out}

C15_SecondReplyDropped ==
    [][(/\ last'.h = "send_reply_to_user"
        /\ last.h = "send_reply_to_user"
        /\ last.res = "sent"
        /\ last.by # last'.by
        /\ Get(ctx_user_data[last'.by], "reply_comment_id", None) = last.info)
       => /\ last'.out = <<>>
          /\ last'.res = "already_processed"]_vars


\* C16 as stated: when an admin composing a reply submits text, the comment
\* leaves the pending comments and one message goes to the user id that asked;
\* if that delivery fails the admin is told so; and in either case the entry
\* stays removed, the admin's reply flow is Idle and the admin's session is
\* empty.
C16_ReplySubmission ==
    [][last'.h = "send_reply_to_user"
       => LET a == last'.by
              comment_id == Get(ctx_user_data[a], "reply_comment_id", None)
          IN /\ comment_id \notin DOMAIN pending_comments'
             /\ Len(last'.out) = 1
             /\ last'.out[1].call = "send_message"
             /\ comment_id \in DOMAIN pending_comments
                => last'.out[1].to = pending_comments[comment_id].user_id
             /\ ~last'.out[1].ok => last'.res = "failed"
             /\ Get(conversations'["reply_comment"], a, END) = END
             /\ ctx_user_data'[a] = EmptyDict]_vars


\* The callbacks of the registration conversation (bot.py:1163-1180).
RegistrationSteps ==
    {"handle_get_started_callback", "get_full_name", "get_semester", "get_stream",
     "get_gender", "get_payment_method", "receive_screenshot", "cancel"}

\* C17 as stated: after a registration step one of whose own outbound calls
\* raised, the sender's registration flow is Idle and the sender's session is
\* empty.
C17_ErrorReturnsToIdle ==
    (last.h \in RegistrationSteps /\ last.res = "raised")
        => /\ Reg(last.by) = END
           /\ ctx_user_data[last.by] = EmptyDict


\* A fan-out to the admins attempted one call per admin, in list order.
ReachedEveryAdmin(out, call) ==
    /\ Len(out) = Len(ADMIN_IDS)
    /\ \A i \in DOMAIN out : out[i].to = ADMIN_IDS[i] /\ out[i].call = call

TextHandlers ==
    {"get_full_name", "ask_question_start", "receive_comment",
     "send_reply_to_user", "announcement_start", "announcement_content",
     "handle_menu_buttons"}

\* C19 as stated, for text input: a text sent by a user who is in
\* AwaitingScreenshot is answered by the screenshot step's re-prompt and
\* changes nothing: the user stays in AwaitingScreenshot, enters no other
\* flow, and the session, the directory and the queues stay as they were.
C19_TextReprompts ==
    [][(last'.h \in TextHandlers /\ Reg(last'.by) = AWAITING_SCREENSHOT)
       => /\ last'.res = "reprompt"
          /\ Get(conversations'["registration"], last'.by, END) = AWAITING_SCREENSHOT
          /\ Get(conversations'["ask_comment"], last'.by, END) = Ask(last'.by)
          /\ UNCHANGED <<ctx_user_data, bot_data>>]_vars


IsBlank(t) == \A i \in DOMAIN t : t[i] = " "

\* `name` is the text t without its leading and trailing blanks.
IsTrimOf(name, t) ==
    /\ name # <<>>
    /\ Head(name) # " "
    /\ name[Len(name)] # " "
    /\ \E a \in 0..Len(t), b \in 0..Len(t) :
          /\ a + Len(name) + b = Len(t)
          /\ SubSeq(t, a + 1, Len(t) - b) = name
          /\ \A i \in 1..a : t[i] = " "
          /\ \A i \in (Len(t) - b + 1)..Len(t) : t[i] = " "

StreamOptions(semester) ==
    {SplitArg(d) : d \in Buttons(Keyboard(0, 0, StreamKeyboard(semester), <<>>, 0))
                          \ {CancelRegistrationData}}

\* C21 as stated: in every submission that records a semester and a stream,
\* the stream is one of the options offered for that semester.
C21_StreamOfSemester ==
    \A u \in DOMAIN pending_reviews :
       LET e == pending_reviews[u] IN
       (e.semester \in {FirstSemester, SecondSemester} /\ e.stream # None)
          => e.stream \in StreamOptions(e.semester)


\* The text s starts with the text p.
StartsWith(s, p) == Len(s) >= Len(p) /\ SubSeq(s, 1, Len(p)) = p

\* C22 as stated: the payment id of every entry of the review queue starts
\* with "ABJ" followed by the id of the user the entry is about.
C22_PaymentIdOfUser ==
    \A u \in DOMAIN pending_reviews :
       StartsWith(pending_reviews[u].payment_id, <<"ABJ">> \o Str(u))


\* C23 as stated: two derivations from different (user id, message id) pairs
\* give different payment ids.
C23_PaymentIdUnique ==
    [][<<last.by, last.on>> # <<last'.by, last'.on>> => last.info # last'.info]_vars


\* C24: in every reachable state, also after a handler one of whose calls
\* raised, a user with an entry in the review queue has status pending.
C24_EntryMeansPending ==
    \A u \in DOMAIN pending_reviews : Get(user_statuses, u, "none") = "pending"

\* C24 witness: a screenshot step in which no admin could be reached and the
\* confirmation to the user raised; the entry and the pending status are both
\* in place.
C24_Witness ==
    /\ last.h = "receive_screenshot"
    /\ last.res = "raised"
    /\ \A i \in DOMAIN last.out : ~last.out[i].ok
    /\ last.by \in DOMAIN pending_reviews
    /\ Get(user_statuses, last.by, "none") = "pending"
    /\ Reg(last.by) = AWAITING_SCREENSHOT


\* C25 as stated: once the gate has handled a join event, none of the users
\* who joined is banned from the gated channel, and every ban it made is
\* followed by an unban of the same user that went through.
C25_NoLastingBan ==
    last.h = "handle_new_chat_members"
       => /\ Range(last.info) \cap banned = {}
          /\ \A i \in DOMAIN last.out :
                (last.out[i].call = "ban_chat_member" /\ last.out[i].ok)
                   => /\ i + 1 \in DOMAIN last.out
                      /\ last.out[i + 1].call = "unban_chat_member"
                      /\ last.out[i + 1].arg = last.out[i].arg
                      /\ last.out[i + 1].ok


\* C26 as stated: every entry of the review queue has the five collected
\* fields set.
C26_EntryFieldsSet ==
    \A u \in DOMAIN pending_reviews :
       /\ pending_reviews[u].full_name # None
       /\ pending_reviews[u].semester # None
       /\ pending_reviews[u].stream # None
       /\ pending_reviews[u].gender # None
       /\ pending_reviews[u].payment_method # None


\* C27 as stated: in every reachable state every user whose status is pending
\* has an entry in the review queue.
C27_PendingHasEntry ==
    \A u \in DOMAIN user_statuses :
       user_statuses[u] = "pending" => u \in DOMAIN pending_reviews


\* The step is an approve by an admin for user u, whose entry was in the
\* review queue when the step began.
AdminApproves(u) ==
    /\ last'.h = "user_approval_handler"
    /\ last'.res = "approve"
    /\ last'.by \in AdminSet
    /\ last'.on = u
    /\ u \in DOMAIN pending_reviews

\* C28: a user's status becomes approved only in a step that is an approve by
\* an admin on the entry the queue holds for that user, and an invite for the
\* gated channel is minted only in such a step; in particular no step taken
\* by a user who is no admin does either.
C28_ApprovedOnlyByAdmin ==
    [][/\ \A u \in DOMAIN user_statuses' :
             (user_statuses'[u] = "approved" /\ Get(user_statuses, u, "none") # "approved")
                => AdminApproves(u)
       /\ CallsNamed(last'.out, "create_chat_invite_link") # {}
             => AdminApproves(last'.on)]_vars

\* C28 witness: an admin approved a queued user and the invite was minted.
C28_Witness ==
    /\ ApprovalRan
    /\ last.res = "approve"
    /\ last.by \in AdminSet
    /\ StatusOf(last.on) = "approved"
    /\ \E i \in CallsNamed(last.out, "create_chat_invite_link") : last.out[i].ok


\* C29 as stated: once the cancel button of the announcement flow was
\* pressed, nothing the admin sends is relayed until a cohort is selected
\* again: a message is relayed as an announcement only by an admin whose
\* session holds the cohort selected since the last cancel.
C29_CancelStopsRelay ==
    [][(last'.h = "announcement_content" /\ last'.out # <<>>)
       => "announcement_semester" \in DOMAIN ctx_user_data[last'.by]]_vars


\* Admin a holds the approval message sent with photo `shot`.
HoldsCopy(a, shot) ==
    \E m \in keyboards : m.chat = a /\ m.kb = "approval" /\ m.shot = shot

\* C30 as stated: when an approve or reject decides a user's entry and the
\* other admin's copy of the submission the pressed control was sent with is
\* gone (that admin processed it), the entry decided is that submission and
\* not a later one.
C30_ControlOfItsSubmission ==
    [][(/\ last'.h = "user_approval_handler"
        /\ last'.res \in {"approve", "reject"}
        /\ HoldsCopy(last'.by, last'.info)
        /\ \E b \in AdminSet \ {last'.by} : ~HoldsCopy(b, last'.info))
       => last'.info = pending_reviews[last'.on].screenshot_file_id]_vars


\* C31 as stated: the sent count reported for an announcement is the number
\* of target users a message was delivered to, whatever kind of content
\* (text, image or any other message) the admin submitted.
C31_SentCountIsDelivered ==
    last.h = "announcement_content"
       => last.info[1] = Cardinality({i \in DOMAIN last.out :
                                        /\ last.out[i].to \in Students
                                        /\ last.out[i].ok})


\* ------------------------------------------------------------------------
\* One registrant with two conversations: the registration updates, "Ask
\* Question", a question, and the Cancel button under the question prompt,
\* without transport failures.
NextSession ==
    \/ NextAwaiting
    \/ \E m \in keyboards : cancel_question_callback(m.chat, m, "none")

SpecSession == Init /\ [][NextSession]_vars

\* The conversation a handler is registered in (bot.py:1163-1216); the
\* /cancel command belongs to the conversation that takes it as a fallback.
FlowOf(h, u) ==
    IF h \in {"start", "handle_get_started_callback", "get_full_name",
              "get_semester", "get_stream", "get_gender",
              "get_payment_method", "receive_screenshot",
              "cancel_registration_callback"} THEN "registration"
    ELSE IF h \in {"ask_question_start", "receive_comment",
                   "cancel_question_callback"} THEN "ask_comment"
    ELSE IF h \in {"reply_to_comment_start", "send_reply_to_user",
                   "cancel_reply_callback"} THEN "reply_comment"
    ELSE IF h \in {"announcement_start", "announcement_semester",
                   "announcement_content", "cancel_announcement_callback"}
        THEN "announcement"
    ELSE IF h = "cancel" /\ RouteCancel(u) \in ConvNames THEN RouteCancel(u)
    ELSE "none"

\* The session keys the handlers of a conversation read: the collected
\* registration answers (bot.py:507-510, 544-571), the comment being answered
\* (bot.py:911-913), the selected cohort (bot.py:1001).
SessionKeysOf(c) ==
    IF c = "registration" THEN CollectedKeys
    ELSE IF c = "reply_comment"
        THEN {"reply_comment_id", "reply_user_id", "reply_user_name"}
    ELSE IF c = "announcement" THEN {"announcement_semester"}
    ELSE {}

\* C32 as stated: a user has one flow in flight at a time, so a step of one
\* flow (its cancel or its completion included) removes from the session no
\* key that another flow of the same user, in flight and left in its state,
\* still reads.
C32_SessionOfOneFlow ==
    [][\A u \in Users : \A c \in ConvNames :
          (/\ last'.by = u
           /\ FlowOf(last'.h, u) \in ConvNames \ {c}
           /\ conversations[c][u] # END
           /\ conversations'[c][u] = conversations[c][u])
          => \A k \in DOMAIN ctx_user_data[u] \cap SessionKeysOf(c) :
                k \in DOMAIN ctx_user_data'[u]]_vars

====
